---- MODULE Spec2Model ----
(***************************************************************************)
(* go-sockaddr: the IfAddrs collection pipeline of ifaddrs.go (multi-key   *)
(* sort, include/exclude filters, unique, limit/offset, reverse and the    *)
(* Get*Interfaces queries) over a heap of backing arrays, so that slices   *)
(* which share an array are visible as such.                               *)
(***************************************************************************)
EXTENDS Integers, Sequences, FiniteSets, TLC

\* Longest input collection drawn in Init.
MaxLen == 3

\* Width of the machine word (Go's int / uint), scaled down from 64.
IntBits == 8

RECURSIVE Pow2(_)
Pow2(n) == IF n = 0 THEN 1 ELSE 2 * Pow2(n - 1)

MaxInt == Pow2(IntBits - 1) - 1
MinInt == 0 - Pow2(IntBits - 1)
MaxUint == Pow2(IntBits) - 1

\* Two's-complement wrap of an integer into the int range.
WrapInt(v) == ((v + Pow2(IntBits - 1)) % Pow2(IntBits)) - Pow2(IntBits - 1)

Min(a, b) == IF a < b THEN a ELSE b
Max(a, b) == IF a > b THEN a ELSE b

(***************************************************************************)
(* Address values.  A SockAddr is a record: type tag (a flag set, so that  *)
(* TypeIP is the union of the two IP tags), the address as big-endian      *)
(* groups (4 octets for IPv4, 8 16-bit groups for IPv6), the number of     *)
(* mask bits, the port, and the path of a UNIX socket.                     *)
(***************************************************************************)
TypeUnix == {"unix"}
TypeIPv4 == {"ipv4"}
TypeIPv6 == {"ipv6"}
TypeIP == TypeIPv4 \cup TypeIPv6

IPv4Sock(o, bits, port) ==
    [type |-> TypeIPv4, grp |-> o, bits |-> bits, port |-> port, path |-> ""]
IPv6Sock(g, bits, port) ==
    [type |-> TypeIPv6, grp |-> g, bits |-> bits, port |-> port, path |-> ""]
UnixSock(path) ==
    [type |-> TypeUnix, grp |-> <<>>, bits |-> 0, port |-> 0, path |-> path]

IfAddr(sa, name) == [SockAddr |-> sa, Name |-> name]

\* Type().String()
TypeString(t) ==
    IF t = TypeIPv4 THEN "IPv4"
    ELSE IF t = TypeIPv6 THEN "IPv6"
    ELSE IF t = TypeUnix THEN "UNIX" ELSE "unknown"

\* Unix < IPv4 < IPv6
TypeRank(t) ==
    IF t = TypeUnix THEN 1 ELSE IF t = TypeIPv4 THEN 2 ELSE IF t = TypeIPv6 THEN 4 ELSE 0

\* net.IP.String() of a 4-byte address: dotted quad.
NetIPString(o) ==
    ToString(o[1]) \o "." \o ToString(o[2]) \o "." \o ToString(o[3]) \o "." \o ToString(o[4])

\* IPv4Addr.String() that writes the mask also when it is the host mask.
IPv4StringAlwaysMask(sa) ==
    IF sa.port # 0 THEN NetIPString(sa.grp) \o ":" \o ToString(sa.port)
    ELSE NetIPString(sa.grp) \o "/" \o ToString(sa.bits)

\* IPv4Addr.String(): the port takes precedence over the mask.
IPv4String(sa) ==
    IF sa.port # 0 THEN NetIPString(sa.grp) \o ":" \o ToString(sa.port)
    ELSE IF sa.bits = 32 THEN NetIPString(sa.grp)
    ELSE NetIPString(sa.grp) \o "/" \o ToString(sa.bits)

\* Canonical text of the IPv6 addresses of the universe.
IPv6Text(g) ==
    IF g = <<64512, 0, 0, 0, 0, 0, 0, 1>> THEN "fc00::1" ELSE "::"

IPv6String(sa) ==
    IF sa.port # 0 THEN "[" \o IPv6Text(sa.grp) \o "]:" \o ToString(sa.port)
    ELSE IF sa.bits = 128 THEN IPv6Text(sa.grp)
    ELSE IPv6Text(sa.grp) \o "/" \o ToString(sa.bits)

\* SockAddr.String()
String(sa) ==
    IF sa.type = TypeIPv4 THEN IPv4String(sa)
    ELSE IF sa.type = TypeIPv6 THEN IPv6String(sa)
    ELSE sa.path

(***************************************************************************)
(* Reserved-network registry.                                              *)
(***************************************************************************)
\* Width of one group of an address of the given type.
GroupBits(t) == IF t = TypeIPv4 THEN 8 ELSE 16

\* The first `bits` bits of a and b agree (a, b group sequences, w bits per group).
PrefixEq(a, b, bits, w) ==
    \A i \in 1..Len(a) :
        LET k == Max(0, Min(w, bits - w * (i - 1)))
        IN  a[i] \div Pow2(w - k) = b[i] \div Pow2(w - k)

\* net.Contains(sa): sa is an address of net's family inside net's prefix.
Contains(net, sa) ==
    /\ sa.type = net.type
    /\ PrefixEq(net.grp, sa.grp, net.bits, GroupBits(net.type))

rfcNetMap ==
    [rfc \in {1918, 6890} |->
        IF rfc = 1918
        THEN << IPv4Sock(<<10, 0, 0, 0>>, 8, 0),
                IPv4Sock(<<172, 16, 0, 0>>, 12, 0),
                IPv4Sock(<<192, 168, 0, 0>>, 16, 0) >>
        ELSE << IPv4Sock(<<0, 0, 0, 0>>, 8, 0),
                IPv4Sock(<<10, 0, 0, 0>>, 8, 0),
                IPv4Sock(<<100, 64, 0, 0>>, 10, 0),
                IPv4Sock(<<127, 0, 0, 0>>, 8, 0),
                IPv4Sock(<<169, 254, 0, 0>>, 16, 0),
                IPv4Sock(<<172, 16, 0, 0>>, 12, 0),
                IPv4Sock(<<192, 168, 0, 0>>, 16, 0),
                IPv6Sock(<<64512, 0, 0, 0, 0, 0, 0, 0>>, 7, 0),
                IPv6Sock(<<65152, 0, 0, 0, 0, 0, 0, 0>>, 10, 0) >>]

\* Classify(address, identifier)
InRFC(rfc, sa) ==
    \E i \in 1..Len(rfcNetMap[rfc]) : Contains(rfcNetMap[rfc][i], sa)

(***************************************************************************)
(* Comparators: -1, 0 or 1.                                                *)
(***************************************************************************)
CmpInt(a, b) == IF a < b THEN 0 - 1 ELSE IF a > b THEN 1 ELSE 0

RECURSIVE CmpGroups(_, _, _)
CmpGroups(a, b, i) ==
    IF i > Len(a) \/ i > Len(b) THEN CmpInt(Len(a), Len(b))
    ELSE IF a[i] # b[i] THEN CmpInt(a[i], b[i])
    ELSE CmpGroups(a, b, i + 1)

\* Lexical rank of the strings compared by name or path.
StrRank(s) ==
    IF s = "" THEN 0
    ELSE IF s = "/tmp/s" THEN 1
    ELSE IF s = "eth0" THEN 2
    ELSE IF s = "eth1" THEN 3 ELSE 4

\* strings.Compare
StringsCompare(a, b) == IF a = b THEN 0 ELSE CmpInt(StrRank(a), StrRank(b))

AscType(p1, p2) == CmpInt(TypeRank(p1.type), TypeRank(p2.type))

AscAddress(p1, p2) ==
    IF p1.type # p2.type THEN AscType(p1, p2)
    ELSE IF p1.type = TypeUnix THEN StringsCompare(p1.path, p2.path)
    ELSE CmpGroups(p1.grp, p2.grp, 1)

\* An address without a port sorts after every address with one.
PortKey(sa) == IF sa.type \cap TypeIP = {} THEN 65536 ELSE sa.port
AscPort(p1, p2) == CmpInt(PortKey(p1), PortKey(p2))

\* Private (RFC 6890) before public; non-IP addresses last.
PrivateKey(sa) ==
    IF sa.type \cap TypeIP = {} THEN 2 ELSE IF InRFC(6890, sa) THEN 0 ELSE 1
AscPrivate(p1, p2) == CmpInt(PrivateKey(p1), PrivateKey(p2))

\* Fewer mask bits (the bigger network) first; non-IP addresses last.
SizeKey(sa) == IF sa.type \cap TypeIP = {} THEN 129 ELSE sa.bits
AscNetworkSize(p1, p2) == CmpInt(SizeKey(p1), SizeKey(p2))

AscIfAddress(p1, p2) == AscAddress(p1.SockAddr, p2.SockAddr)
AscIfName(p1, p2) == StringsCompare(p1.Name, p2.Name)
AscIfNetworkSize(p1, p2) == AscNetworkSize(p1.SockAddr, p2.SockAddr)
AscIfPort(p1, p2) == AscPort(p1.SockAddr, p2.SockAddr)
AscIfPrivate(p1, p2) == AscPrivate(p1.SockAddr, p2.SockAddr)
AscIfType(p1, p2) == AscType(p1.SockAddr, p2.SockAddr)

\* A CmpIfAddrFunc value is the name of one of the six functions above.
CmpIfAddrFunc ==
    {"AscIfAddress", "AscIfName", "AscIfNetworkSize", "AscIfPort", "AscIfPrivate", "AscIfType"}

Call(f, p, q) ==
    CASE f = "AscIfAddress" -> AscIfAddress(p, q)
      [] f = "AscIfName" -> AscIfName(p, q)
      [] f = "AscIfNetworkSize" -> AscIfNetworkSize(p, q)
      [] f = "AscIfPort" -> AscIfPort(p, q)
      [] f = "AscIfPrivate" -> AscIfPrivate(p, q)
      [] f = "AscIfType" -> AscIfType(p, q)

(***************************************************************************)
(* The heap: backing arrays by number, and slices [arr, lo, hi) over them. *)
(* Array 1 backs the caller's input collection, array 2 the collection a   *)
(* call allocates.  The zero slice stands for nil and for IfAddrs{}.       *)
(***************************************************************************)
NilSlice == [arr |-> 0, lo |-> 0, hi |-> 0]

View(m, s) == IF s.arr = 0 THEN <<>> ELSE SubSeq(m[s.arr], s.lo + 1, s.hi)

SliceLen(s) == s.hi - s.lo

SliceCap(m, s) == IF s.arr = 0 THEN 0 ELSE Len(m[s.arr]) - s.lo

Ret(m, s) == [m |-> m, s |-> s, panic |-> FALSE]

Panic(m) == [m |-> m, s |-> NilSlice, panic |-> TRUE]

\* make(IfAddrs, 0, n) followed by appends of seq, or append(IfAddrs(nil), seq...)
Alloc(m, seq) ==
    Ret([m EXCEPT ![2] = seq], [arr |-> 2, lo |-> 0, hi |-> Len(seq)])

\* The array of slice s with its window replaced by t.
Store(m, s, t) ==
    [m EXCEPT ![s.arr] =
        SubSeq(m[s.arr], 1, s.lo) \o t \o SubSeq(m[s.arr], s.hi + 1, Len(m[s.arr]))]

(***************************************************************************)
(* multiIfAddrSorter                                                       *)
(***************************************************************************)
RECURSIVE LessLoop(_, _, _, _, _)
LessLoop(ifAddrs, cmp, k, i, j) ==
    LET x == Call(cmp[k], ifAddrs[i], ifAddrs[j])
    IN  IF k < Len(cmp)
        THEN IF x = 0 - 1 THEN TRUE
             ELSE IF x = 1 THEN FALSE
             ELSE LessLoop(ifAddrs, cmp, k + 1, i, j)
        ELSE x = 0 - 1

\* Less with its two elements taken the wrong way round.
LessReversed(ifAddrs, cmp, i, j) == LessLoop(ifAddrs, cmp, 1, j, i)

\* Less with the comparison functions tried from the last to the first.
LessTrailingFirst(ifAddrs, cmp, i, j) ==
    LessLoop(ifAddrs, [k \in 1..Len(cmp) |-> cmp[Len(cmp) + 1 - k]], 1, i, j)

\* Less(i, j) of a sorter over ifAddrs with comparison functions cmp.
Less(ifAddrs, cmp, i, j) == LessLoop(ifAddrs, cmp, 1, i, j)

Swap(ifAddrs, i, j) ==
    [ifAddrs EXCEPT ![i] = ifAddrs[j], ![j] = ifAddrs[i]]

\* The sorted arrangements of the elements of seq at the indices `left`: the
\* first element is one that no other is Less than (of equal elements, the
\* earliest stands for all), and the rest is sorted likewise.
RECURSIVE SortedFrom(_, _, _)
SortedFrom(seq, cmp, left) ==
    IF left = {} THEN {<<>>}
    ELSE LET first == { i \in left :
                          /\ \A j \in left : ~Less(seq, cmp, j, i)
                          /\ \A j \in left : seq[j] = seq[i] => i <= j }
         IN  UNION { { <<seq[i]>> \o t : t \in SortedFrom(seq, cmp, left \ {i}) } :
                        i \in first }

\* sort.Sort(ms): some arrangement, reached by Swap, in which no element is Less
\* than one before it; sort.Sort does not promise to keep equal elements in
\* their original order.
SortOutcomes(cmp, seq) == SortedFrom(seq, cmp, 1..Len(seq))

\* OrderedIfAddrBy(cmp...).Sort(s): sorts the window of s in place.
Sort(m, s, cmp) ==
    IF s.arr = 0 THEN {m}
    ELSE { Store(m, s, t) : t \in SortOutcomes(cmp, View(m, s)) }

(***************************************************************************)
(* Library functions the pipeline calls, on the inputs the model draws.    *)
(***************************************************************************)
\* strings.ToLower
ToLower(s) ==
    CASE s = "RFC" -> "rfc"
      [] s = "Name" -> "name"
      [] s = "TYPE" -> "type"
      [] OTHER -> s

\* A string with commas is held as the sequence of its comma-free pieces, which
\* is what strings.Split(s, ",") returns; Join gives the string back.
RECURSIVE Join(_)
Join(pieces) ==
    IF Len(pieces) = 1 THEN pieces[1]
    ELSE pieces[1] \o "," \o Join(Tail(pieces))

StringsSplit(pieces) == pieces

\* strconv.ParseUint(s, 10, 64)
ParseUint(s) ==
    CASE s = "8" -> [v |-> 8, ok |-> TRUE]
      [] s = "16" -> [v |-> 16, ok |-> TRUE]
      [] s = "32" -> [v |-> 32, ok |-> TRUE]
      [] s = "1918" -> [v |-> 1918, ok |-> TRUE]
      [] s = "6890" -> [v |-> 6890, ok |-> TRUE]
      [] s = "9999" -> [v |-> 9999, ok |-> TRUE]
      [] OTHER -> [v |-> 0, ok |-> FALSE]

\* regexp.Compile succeeds on the empty pattern and on the anchored literals.
RegexpLiteral(re) ==
    CASE re = "^eth0$" -> "eth0"
      [] re = "^IPv4$" -> "IPv4"
      [] re = "^UNIX$" -> "UNIX"
      [] re = "^53$" -> "53"
      [] re = "^0$" -> "0"
      [] re = "^10[.]0[.]0[.]1/8$" -> "10.0.0.1/8"
      [] OTHER -> "("

\* regexp.Compile taken never to fail.
RegexpAlwaysCompiles(re) == TRUE

RegexpCompiles(re) == re = "" \/ RegexpLiteral(re) # "("

\* re.MatchString(s)
MatchString(re, s) == re = "" \/ s = RegexpLiteral(re)

(***************************************************************************)
(* Filter primitives, on the contents of a collection.  Each builds its    *)
(* results by append onto arrays it makes.  err is "" for nil.             *)
(***************************************************************************)
FilterIfByType(ifAddrs, type_) ==
    LET hit(a) == a.SockAddr.type \cap type_ # {}
        miss(a) == ~hit(a)
    IN  [matched |-> SelectSeq(ifAddrs, hit), excluded |-> SelectSeq(ifAddrs, miss)]

Partition(ifAddrs, hit(_), err) ==
    LET miss(a) == ~hit(a)
    IN  [matched |-> SelectSeq(ifAddrs, hit),
         remainder |-> SelectSeq(ifAddrs, miss),
         err |-> err]

Failed(err) == [matched |-> <<>>, remainder |-> <<>>, err |-> err]

IfByAddress(inputRe, ifAddrs) ==
    IF ~RegexpCompiles(inputRe) THEN Failed("Unable to compile address regexp")
    ELSE LET hit(a) == MatchString(inputRe, String(a.SockAddr))
         IN  Partition(ifAddrs, hit, "")

IfByName(inputRe, ifAddrs) ==
    IF ~RegexpCompiles(inputRe) THEN Failed("Unable to compile name regexp")
    ELSE LET hit(a) == MatchString(inputRe, a.Name)
         IN  Partition(ifAddrs, hit, "")

IfByPort(inputRe, ifAddrs) ==
    IF ~RegexpCompiles(inputRe) THEN Failed("Unable to compile port regexp")
    ELSE LET ip == FilterIfByType(ifAddrs, TypeIP)
             hit(a) == MatchString(inputRe, ToString(a.SockAddr.port))
             byPort == Partition(ip.matched, hit, "")
         IN  [matched |-> byPort.matched,
              remainder |-> ip.excluded \o byPort.remainder,
              err |-> ""]

IfByRFC(inputRFC, ifAddrs) ==
    IF inputRFC \notin DOMAIN rfcNetMap THEN Failed("unsupported RFC")
    ELSE LET hit(a) == InRFC(inputRFC, a.SockAddr)
         IN  Partition(ifAddrs, hit, "")

\* IfByMaskSize that leaves the addresses that are not IP out of its results.
IfByMaskSizeOfIPOnly(maskSize, ifAddrs) ==
    LET ip == FilterIfByType(ifAddrs, TypeIP)
        hit(a) == a.SockAddr.bits = maskSize
    IN  Partition(ip.matched, hit, "")

IfByMaskSize(maskSize, ifAddrs) ==
    LET ip == FilterIfByType(ifAddrs, TypeIP)
        hit(a) == a.SockAddr.bits = maskSize
        bySize == Partition(ip.matched, hit, "")
    IN  [matched |-> bySize.matched,
         remainder |-> ip.excluded \o bySize.remainder,
         err |-> ""]

IfByType(inputRe, ifAddrs) ==
    IF ~RegexpCompiles(inputRe) THEN Failed("Unable to compile type regexp")
    ELSE LET hit(a) == MatchString(inputRe, TypeString(a.SockAddr.type))
         IN  Partition(ifAddrs, hit, "")

(***************************************************************************)
(* Pipeline stages.  Each takes the heap m and the input slice `in`, and   *)
(* returns the heap after the call with the slice it returns.              *)
(***************************************************************************)
RECURSIVE IncludeRFCs(_, _, _)
IncludeRFCs(rfcs, inputIfAddrs, includedIfs) ==
    IF rfcs = <<>> THEN includedIfs
    ELSE LET rfc == ParseUint(Head(rfcs))
             got == IfByRFC(rfc.v, inputIfAddrs)
         IN  IF ~rfc.ok THEN IncludeRFCs(Tail(rfcs), inputIfAddrs, includedIfs)
             ELSE IF got.err # "" THEN IncludeRFCs(Tail(rfcs), inputIfAddrs, includedIfs)
             ELSE IncludeRFCs(Tail(rfcs), inputIfAddrs, includedIfs \o got.matched)

\* What IncludeIfs returns, as contents.
IncludedIfs(selectorName, selectorParam, inputIfAddrs) ==
    LET sel == ToLower(selectorName)
        param == Join(selectorParam)
        pick(got) == IF got.err # "" THEN <<>> ELSE got.matched
    IN  CASE sel = "address" -> pick(IfByAddress(param, inputIfAddrs))
          [] sel = "name" -> pick(IfByName(param, inputIfAddrs))
          [] sel = "port" -> pick(IfByPort(param, inputIfAddrs))
          [] sel = "rfc" -> IncludeRFCs(StringsSplit(selectorParam), inputIfAddrs, <<>>)
          [] sel = "size" ->
                IF ~ParseUint(param).ok THEN <<>>
                ELSE IfByMaskSize(ParseUint(param).v, inputIfAddrs).matched
          [] sel = "type" -> pick(IfByType(param, inputIfAddrs))
          [] OTHER -> <<>>

IncludeIfs(m, selectorName, selectorParam, in) ==
    Alloc(m, IncludedIfs(selectorName, selectorParam, View(m, in)))

RECURSIVE ExcludeRFCs(_, _, _)
ExcludeRFCs(rfcs, inputIfAddrs, excludedIfs) ==
    IF rfcs = <<>> THEN excludedIfs
    ELSE LET rfc == ParseUint(Head(rfcs))
             got == IfByRFC(rfc.v, inputIfAddrs)
         IN  IF rfc.ok THEN ExcludeRFCs(Tail(rfcs), inputIfAddrs, excludedIfs)
             ELSE IF got.err # "" THEN ExcludeRFCs(Tail(rfcs), inputIfAddrs, excludedIfs)
             ELSE ExcludeRFCs(Tail(rfcs), inputIfAddrs, excludedIfs \o got.remainder)

\* What ExcludeIfs returns, as contents.
ExcludedIfs(selectorName, selectorParam, inputIfAddrs) ==
    LET sel == ToLower(selectorName)
        param == Join(selectorParam)
        pick(got) == IF got.err # "" THEN <<>> ELSE got.remainder
    IN  CASE sel = "address" -> pick(IfByAddress(param, inputIfAddrs))
          [] sel = "name" -> pick(IfByName(param, inputIfAddrs))
          [] sel = "port" -> pick(IfByPort(param, inputIfAddrs))
          [] sel = "rfc" -> ExcludeRFCs(StringsSplit(selectorParam), inputIfAddrs, <<>>)
          [] sel = "size" ->
                IF ~ParseUint(param).ok THEN <<>>
                ELSE IfByMaskSize(ParseUint(param).v, inputIfAddrs).remainder
          [] sel = "type" -> pick(IfByType(param, inputIfAddrs))
          [] OTHER -> <<>>

ExcludeIfs(m, selectorName, selectorParam, in) ==
    Alloc(m, ExcludedIfs(selectorName, selectorParam, View(m, in)))

\* The comparison function SortIfBy takes for a clause; "" for none.
SortFunc(clause) ==
    CASE ToLower(clause) = "address" -> "AscIfAddress"
      [] ToLower(clause) = "name" -> "AscIfName"
      [] ToLower(clause) = "port" -> "AscIfPort"
      [] ToLower(clause) = "private" -> "AscIfPrivate"
      [] ToLower(clause) = "size" -> "AscIfNetworkSize"
      [] ToLower(clause) = "type" -> "AscIfType"
      [] OTHER -> ""

\* SortIfBy without the copy: the input itself is sorted.
SortIfByInPlace(m, selectorParam, in) ==
    LET clauses == StringsSplit(selectorParam)
        sortFuncs == [i \in 1..Len(clauses) |-> SortFunc(clauses[i])]
    IN  IF \E i \in 1..Len(clauses) : sortFuncs[i] = ""
        THEN {Ret(m, NilSlice)}
        ELSE {Ret(m2, in) : m2 \in Sort(m, in, sortFuncs)}

\* SortIfBy copies its input, then sorts the copy in place.
SortIfBy(m, selectorParam, in) ==
    LET sortedIfs == Alloc(m, View(m, in))
        clauses == StringsSplit(selectorParam)
        sortFuncs == [i \in 1..Len(clauses) |-> SortFunc(clauses[i])]
    IN  IF \E i \in 1..Len(clauses) : sortFuncs[i] = ""
        THEN {Ret(sortedIfs.m, NilSlice)}
        ELSE {Ret(m2, sortedIfs.s) : m2 \in Sort(sortedIfs.m, sortedIfs.s, sortFuncs)}

\* The loop of UniqueIfAddrsBy with an empty key for an unsupported selector.
RECURSIVE UniqueLoopEmptyDefault(_, _, _, _)
UniqueLoopEmptyDefault(selectorName, rest, lastMatch, ifs) ==
    IF rest = <<>> THEN ifs
    ELSE LET ifAddr == Head(rest)
             attrName == ToLower(selectorName)
             out == CASE attrName = "address" -> String(ifAddr.SockAddr)
                      [] attrName = "name" -> ifAddr.Name
                      [] OTHER -> ""
         IN  IF lastMatch = "" \/ lastMatch # out
             THEN UniqueLoopEmptyDefault(selectorName, Tail(rest), out, Append(ifs, ifAddr))
             ELSE UniqueLoopEmptyDefault(selectorName, Tail(rest), lastMatch, ifs)

RECURSIVE UniqueLoop(_, _, _, _)
UniqueLoop(selectorName, rest, lastMatch, ifs) ==
    IF rest = <<>> THEN ifs
    ELSE LET ifAddr == Head(rest)
             attrName == ToLower(selectorName)
             out == CASE attrName = "address" -> String(ifAddr.SockAddr)
                      [] attrName = "name" -> ifAddr.Name
                      [] OTHER -> "<unsupported method \"" \o selectorName \o "\">"
         IN  IF lastMatch = "" \/ lastMatch # out
             THEN UniqueLoop(selectorName, Tail(rest), out, Append(ifs, ifAddr))
             ELSE UniqueLoop(selectorName, Tail(rest), lastMatch, ifs)

UniqueIfAddrsBy(m, selectorName, in) ==
    Alloc(m, UniqueLoop(selectorName, View(m, in), "", <<>>))

\* lim is a uint; int(lim) reinterprets its bits.
LimitIfAddrs(m, lim, in) ==
    LET clamped == IF WrapInt(lim) > SliceLen(in) THEN SliceLen(in) ELSE lim
    IN  IF clamped > SliceCap(m, in) THEN Panic(m)
        ELSE Ret(m, [arr |-> in.arr, lo |-> in.lo, hi |-> in.lo + clamped])

OffsetIfAddrs(m, off, in) ==
    LET end == off < 0
        abs == IF off < 0 THEN WrapInt(off * (0 - 1)) ELSE off
        from == WrapInt(SliceLen(in) - abs)
    IN  IF abs > SliceLen(in) THEN Ret(m, NilSlice)
        ELSE IF end
        THEN IF from < 0 \/ from > SliceLen(in) THEN Panic(m)
             ELSE Ret(m, [arr |-> in.arr, lo |-> in.lo + from, hi |-> in.hi])
        ELSE Ret(m, [arr |-> in.arr, lo |-> in.lo + abs, hi |-> in.hi])

RECURSIVE ReverseLoop(_, _)
ReverseLoop(reversedIfAddrs, i) ==
    IF i < 0 THEN reversedIfAddrs
    ELSE ReverseLoop(Swap(reversedIfAddrs, i + 1, Len(reversedIfAddrs) - i), i - 1)

\* ReverseIfAddrs copies its input, then swaps the copy's ends inwards.
ReverseIfAddrs(m, in) ==
    LET reversedIfAddrs == Alloc(m, View(m, in))
        n == SliceLen(reversedIfAddrs.s)
    IN  Ret(Store(reversedIfAddrs.m, reversedIfAddrs.s,
                  ReverseLoop(View(reversedIfAddrs.m, reversedIfAddrs.s), (n \div 2) - 1)),
            reversedIfAddrs.s)

(***************************************************************************)
(* Convenience queries.  route is what the platform's default-route lookup *)
(* yields ([name, found]); sys is what interface enumeration yields        *)
(* ([ifs, fails]).  err is "" for nil.                                     *)
(***************************************************************************)
getDefaultIfName(route) ==
    IF route.found THEN [name |-> route.name, err |-> ""]
    ELSE [name |-> "", err |-> "No default interface found"]

GetAllInterfaces(sys) ==
    IF sys.fails THEN [ifAddrs |-> <<>>, err |-> "enumeration failed"]
    ELSE [ifAddrs |-> sys.ifs, err |-> ""]

\* GetDefaultInterfaces returning the error of a failed enumeration.
GetDefaultInterfacesStrict(route, sys) ==
    LET def == getDefaultIfName(route)
        onDefault(ifAddr) == ifAddr.Name = def.name
    IN  IF def.err # "" THEN [ifs |-> <<>>, err |-> def.err]
        ELSE IF GetAllInterfaces(sys).err # ""
        THEN [ifs |-> <<>>, err |-> GetAllInterfaces(sys).err]
        ELSE [ifs |-> SelectSeq(GetAllInterfaces(sys).ifAddrs, onDefault), err |-> ""]

GetDefaultInterfaces(route, sys) ==
    LET def == getDefaultIfName(route)
        onDefault(ifAddr) == ifAddr.Name = def.name
    IN  IF def.err # "" THEN [ifs |-> <<>>, err |-> def.err]
        ELSE [ifs |-> SelectSeq(GetAllInterfaces(sys).ifAddrs, onDefault), err |-> ""]

\* GetPrivateInterfaces without the sort.
GetPrivateInterfacesUnsorted(route, sys) ==
    LET defaultIfs == GetDefaultInterfaces(route, sys).ifs
        ipIfs == FilterIfByType(defaultIfs, TypeIP).matched
        byRFC == IfByRFC(6890, ipIfs)
    IN  IF Len(defaultIfs) = 0 THEN {<<>>}
        ELSE IF Len(ipIfs) = 0 THEN {<<>>}
        ELSE IF byRFC.err # "" \/ Len(byRFC.matched) = 0 THEN {<<>>}
        ELSE {byRFC.matched}

\* The results GetPrivateInterfaces can return (one per outcome of the sort).
GetPrivateInterfaces(route, sys) ==
    LET defaultIfs == GetDefaultInterfaces(route, sys).ifs
        ipIfs == FilterIfByType(defaultIfs, TypeIP).matched
        byRFC(sorted) == IfByRFC(6890, sorted)
    IN  IF Len(defaultIfs) = 0 THEN {<<>>}
        ELSE IF Len(ipIfs) = 0 THEN {<<>>}
        ELSE { IF byRFC(sorted).err # "" \/ Len(byRFC(sorted).matched) = 0
               THEN <<>> ELSE byRFC(sorted).matched :
                  sorted \in SortOutcomes(<<"AscIfType", "AscIfNetworkSize">>, ipIfs) }

\* The results GetPublicInterfaces can return.
GetPublicInterfaces(route, sys) ==
    LET defaultIfs == GetDefaultInterfaces(route, sys).ifs
        ipIfs == FilterIfByType(defaultIfs, TypeIP).matched
        byRFC(sorted) == IfByRFC(6890, sorted)
    IN  IF Len(defaultIfs) = 0 THEN {<<>>}
        ELSE IF Len(ipIfs) = 0 THEN {<<>>}
        ELSE { IF byRFC(sorted).err # "" \/ Len(byRFC(sorted).remainder) = 0
               THEN <<>> ELSE byRFC(sorted).remainder :
                  sorted \in SortOutcomes(<<"AscIfType", "AscIfNetworkSize">>, ipIfs) }

\* ip.NetIP().String()
NetIPText(sa) == IF sa.type = TypeIPv4 THEN NetIPString(sa.grp) ELSE IPv6Text(sa.grp)

GetPrivateIP(route, sys) ==
    { IF Len(privateIfs) < 1 THEN "" ELSE NetIPText(privateIfs[1].SockAddr) :
        privateIfs \in GetPrivateInterfaces(route, sys) }

GetPublicIP(route, sys) ==
    { IF Len(publicIfs) < 1 THEN "" ELSE NetIPText(publicIfs[1].SockAddr) :
        publicIfs \in GetPublicInterfaces(route, sys) }

(***************************************************************************)
(* IPv4Addr.  The Address is the four big-endian octets `grp`; the Mask,   *)
(* always a prefix mask, is held as its number of one bits `bits`.         *)
(***************************************************************************)
\* IPv4HostMask = IPv4Mask(0xffffffff), as its number of one bits.
IPv4HostMask == 32

\* mask.Size() of the Mask.
Maskbits(ipv4) == ipv4.bits

\* 2^(number of zero bits of the k-th octet of the Mask).
HostSpan(ipv4, k) == Pow2(8 - Min(8, Max(0, ipv4.bits - 8 * (k - 1))))

\* NetworkAddress without the mask applied.
NetworkAddressUnmasked(ipv4) == ipv4.grp

\* uint32(Address) & uint32(Mask)
NetworkAddress(ipv4) ==
    [k \in 1..4 |-> ipv4.grp[k] - (ipv4.grp[k] % HostSpan(ipv4, k))]

\* uint32(Address) & uint32(Mask) | ^uint32(Mask)
BroadcastAddress(ipv4) ==
    [k \in 1..4 |-> NetworkAddress(ipv4)[k] + HostSpan(ipv4, k) - 1]

\* addr++ and addr-- of a uint32 held as octets: the carry runs from the
\* last octet to the first and falls off the end (arithmetic modulo 2^32).
RECURSIVE Increment(_, _)
Increment(o, k) ==
    IF k = 0 THEN o
    ELSE IF o[k] = 255 THEN Increment([o EXCEPT ![k] = 0], k - 1)
    ELSE [o EXCEPT ![k] = o[k] + 1]

RECURSIVE Decrement(_, _)
Decrement(o, k) ==
    IF k = 0 THEN o
    ELSE IF o[k] = 0 THEN Decrement([o EXCEPT ![k] = 255], k - 1)
    ELSE [o EXCEPT ![k] = o[k] - 1]

Broadcast(ipv4) == IPv4Sock(BroadcastAddress(ipv4), IPv4HostMask, 0)

\* FirstUsable with the step taken whatever the mask.
FirstUsableUnguarded(ipv4) ==
    IPv4Sock(Increment(NetworkAddress(ipv4), 4), IPv4HostMask, 0)

FirstUsable(ipv4) ==
    LET addr == NetworkAddress(ipv4)
    IN  IPv4Sock(IF Maskbits(ipv4) < 31 THEN Increment(addr, 4) ELSE addr, IPv4HostMask, 0)

Host(ipv4) == IPv4Sock(ipv4.grp, IPv4HostMask, ipv4.port)

\* LastUsable with the step taken whatever the mask.
LastUsableUnguarded(ipv4) ==
    IPv4Sock(Decrement(BroadcastAddress(ipv4), 4), IPv4HostMask, 0)

LastUsable(ipv4) ==
    LET addr == BroadcastAddress(ipv4)
    IN  IPv4Sock(IF Maskbits(ipv4) < 31 THEN Decrement(addr, 4) ELSE addr, IPv4HostMask, 0)

Network(ipv4) == IPv4Sock(NetworkAddress(ipv4), ipv4.bits, 0)

\* NetIPNet().String() without the mask.
NetIPNetStringBare(ipv4) == NetIPString(NetworkAddress(ipv4))

\* NetIPNet().String(): the network address, "/", the length of the mask.
NetIPNetString(ipv4) ==
    NetIPString(NetworkAddress(ipv4)) \o "/" \o ToString(Maskbits(ipv4))

Equal(ipv4, sa) ==
    IF sa.type # TypeIPv4 THEN FALSE
    ELSE IF ipv4.port # sa.port THEN FALSE
    ELSE IF ipv4.grp # sa.grp THEN FALSE
    ELSE IF NetIPNetString(ipv4) # NetIPNetString(sa) THEN FALSE
    ELSE TRUE

\* fmt.Sprintf("%s:%d", ipv4.NetIP().String(), ipv4.Port)
HostPort(ipv4) == NetIPString(ipv4.grp) \o ":" \o ToString(ipv4.port)

\* DialPacketArgs without the test of the port.
DialPacketArgsAnyPort(ipv4) ==
    IF ipv4.bits # IPv4HostMask THEN <<"udp4", "">>
    ELSE <<"udp4", HostPort(ipv4)>>

DialPacketArgs(ipv4) ==
    IF ipv4.bits # IPv4HostMask \/ ipv4.port = 0 THEN <<"udp4", "">>
    ELSE <<"udp4", HostPort(ipv4)>>

DialStreamArgs(ipv4) ==
    IF ipv4.bits # IPv4HostMask \/ ipv4.port = 0 THEN <<"tcp4", "">>
    ELSE <<"tcp4", HostPort(ipv4)>>

ListenPacketArgs(ipv4) ==
    IF ipv4.bits # IPv4HostMask THEN <<"udp4", "">>
    ELSE <<"udp4", HostPort(ipv4)>>

ListenStreamArgs(ipv4) ==
    IF ipv4.bits # IPv4HostMask THEN <<"tcp4", "">>
    ELSE <<"tcp4", HostPort(ipv4)>>

(***************************************************************************)
(* NewIPv4Addr.  The text it is given is a sequence of characters.         *)
(***************************************************************************)
Digit ==
    [c \in {"0", "1", "2", "3", "4", "5", "6", "7", "8", "9"} |->
        CASE c = "0" -> 0 [] c = "1" -> 1 [] c = "2" -> 2 [] c = "3" -> 3
          [] c = "4" -> 4 [] c = "5" -> 5 [] c = "6" -> 6 [] c = "7" -> 7
          [] c = "8" -> 8 [] c = "9" -> 9]

\* The value of a run of decimal digits; a run that is empty, holds another
\* character or exceeds max does not parse.
RECURSIVE Dtoi(_, _, _)
Dtoi(chars, n, max) ==
    IF chars = <<>> THEN [n |-> n, ok |-> TRUE]
    ELSE IF Head(chars) \notin DOMAIN Digit THEN [n |-> 0, ok |-> FALSE]
    ELSE IF n * 10 + Digit[Head(chars)] > max THEN [n |-> 0, ok |-> FALSE]
    ELSE Dtoi(Tail(chars), n * 10 + Digit[Head(chars)], max)

Number(chars, max) ==
    IF chars = <<>> THEN [n |-> 0, ok |-> FALSE] ELSE Dtoi(chars, 0, max)

\* Index of the last occurrence of sep in chars, 0 when there is none.
LastIndex(chars, sep) ==
    LET at == { i \in 1..Len(chars) : chars[i] = sep }
    IN  IF at = {} THEN 0 ELSE CHOOSE i \in at : \A j \in at : j <= i

\* The pieces of chars between occurrences of sep.
RECURSIVE Fields(_, _)
Fields(chars, sep) ==
    LET i == LastIndex(chars, sep)
    IN  IF i = 0 THEN <<chars>>
        ELSE Fields(SubSeq(chars, 1, i - 1), sep) \o <<SubSeq(chars, i + 1, Len(chars))>>

\* net.ParseIP of a dotted quad: four fields of one to three digits, without
\* a leading zero, each at most 255.
ParseIP(chars) ==
    LET fields == Fields(chars, ".")
        octet(f) == Number(f, 255)
        good(f) == octet(f).ok /\ (Len(f) > 1 => f[1] # "0")
    IN  IF Len(fields) = 4 /\ \A k \in 1..4 : good(fields[k])
        THEN [ip |-> [k \in 1..4 |-> octet(fields[k]).n], ok |-> TRUE]
        ELSE [ip |-> <<>>, ok |-> FALSE]

\* net.ResolveTCPAddr("tcp4", s) of a literal address: host and port are
\* split at the last colon; without one it fails (missing port in address).
ResolveTCPAddr(chars) ==
    LET i == LastIndex(chars, ":")
        host == ParseIP(SubSeq(chars, 1, i - 1))
        port == Number(SubSeq(chars, i + 1, Len(chars)), 65535)
    IN  IF i = 0 \/ ~host.ok \/ ~port.ok THEN [ip |-> <<>>, port |-> 0, ok |-> FALSE]
        ELSE [ip |-> host.ip, port |-> port.n, ok |-> TRUE]

\* net.ParseCIDR: the address as written, and the length of the mask.
ParseCIDR(chars) ==
    LET i == LastIndex(chars, "/")
        addr == ParseIP(SubSeq(chars, 1, i - 1))
        n == Number(SubSeq(chars, i + 1, Len(chars)), 32)
    IN  IF i = 0 \/ ~addr.ok \/ ~n.ok THEN [ip |-> <<>>, bits |-> 0, ok |-> FALSE]
        ELSE [ip |-> addr.ip, bits |-> n.n, ok |-> TRUE]

\* IPv4Addr{}, the zero value returned with an error.
ZeroIPv4Addr == IPv4Sock(<<0, 0, 0, 0>>, 0, 0)

NewIPv4Addr(ipv4Str) ==
    LET tcpAddr == ResolveTCPAddr(ipv4Str)
        ip == ParseIP(ipv4Str)
        cidr == ParseCIDR(ipv4Str)
    IN  IF tcpAddr.ok
        THEN [ipv4 |-> IPv4Sock(tcpAddr.ip, IPv4HostMask, tcpAddr.port), ok |-> TRUE]
        ELSE IF ip.ok
        THEN [ipv4 |-> IPv4Sock(ip.ip, IPv4HostMask, 0), ok |-> TRUE]
        ELSE IF cidr.ok
        THEN [ipv4 |-> IPv4Sock(cidr.ip, cidr.bits, 0), ok |-> TRUE]
        ELSE [ipv4 |-> ZeroIPv4Addr, ok |-> FALSE]

(***************************************************************************)
(* Default route.  The output of the route command is held as the sequence *)
(* of its lines, and a line as the sequence of its space-free pieces, so   *)
(* that an empty piece stands for a space at an end or next to another.    *)
(***************************************************************************)
\* strings.SplitN(line, " ", n): at most n pieces, the last the unsplit rest
\* (kept here as the pieces it holds).
SplitN(line, n) ==
    IF Len(line) < n THEN [k \in 1..Len(line) |-> <<line[k]>>]
    ELSE [k \in 1..n |-> IF k < n THEN <<line[k]>> ELSE SubSeq(line, n, Len(line))]

\* strings.TrimSpace: the spaces at both ends are dropped.
RECURSIVE TrimLeft(_)
TrimLeft(pieces) ==
    IF Len(pieces) > 1 /\ Head(pieces) = "" THEN TrimLeft(Tail(pieces)) ELSE pieces

RECURSIVE TrimRight(_)
TrimRight(pieces) ==
    IF Len(pieces) > 1 /\ pieces[Len(pieces)] = ""
    THEN TrimRight(SubSeq(pieces, 1, Len(pieces) - 1)) ELSE pieces

\* The string the pieces spell.
RECURSIVE Spaced(_)
Spaced(pieces) ==
    IF Len(pieces) = 1 THEN pieces[1] ELSE pieces[1] \o " " \o Spaced(Tail(pieces))

TrimSpace(pieces) == Spaced(TrimRight(TrimLeft(pieces)))

RECURSIVE parseLinuxDefaultIfName(_)
parseLinuxDefaultIfName(routeOut) ==
    IF routeOut = <<>> THEN [name |-> "", err |-> "No default interface found"]
    ELSE LET kvs == SplitN(Head(routeOut), 5)
         IN  IF Len(kvs) # 5 THEN parseLinuxDefaultIfName(Tail(routeOut))
             ELSE IF kvs[1] = <<"default">> /\ kvs[2] = <<"via">> /\ kvs[4] = <<"dev">>
             THEN [name |-> TrimSpace(kvs[5]), err |-> ""]
             ELSE parseLinuxDefaultIfName(Tail(routeOut))

(***************************************************************************)
(* Inputs.                                                                 *)
(***************************************************************************)
Private8 == IfAddr(IPv4Sock(<<10, 0, 0, 1>>, 8, 0), "eth0")
Public32 == IfAddr(IPv4Sock(<<8, 8, 8, 8>>, 32, 53), "eth0")
Private16 == IfAddr(IPv4Sock(<<10, 1, 0, 1>>, 16, 0), "eth0")
PrivateV6 == IfAddr(IPv6Sock(<<64512, 0, 0, 0, 0, 0, 0, 1>>, 7, 0), "eth0")
Socket == IfAddr(UnixSock("/tmp/s"), "")

Universe == {Private8, Public32, Private16, PrivateV6, Socket}

Collections == UNION { [1..n -> Universe] : n \in 0..MaxLen }

SortKeys == {"address", "name", "port", "private", "size", "type"}

SortParams ==
    { <<k>> : k \in SortKeys }
    \cup { <<"+" \o k>> : k \in SortKeys }
    \cup { <<"-" \o k>> : k \in SortKeys }
    \cup { <<"type", "size">>, <<"type", "port">>, <<"name", "address">>, <<"TYPE">>, <<"">>, <<"type", "bogus">> }

CmpLists ==
    { <<"AscIfName">>, <<"AscIfType", "AscIfNetworkSize">> }

Selectors ==
    { <<"address", <<"">> >>, <<"address", <<"^10[.]0[.]0[.]1/8$">> >>, <<"address", <<"(">> >>,
      <<"name", <<"^eth0$">> >>, <<"Name", <<"(">> >>,
      <<"port", <<"^53$">> >>, <<"port", <<"^0$">> >>, <<"port", <<"(">> >>,
      <<"rfc", <<"1918">> >>, <<"RFC", <<"6890">> >>, <<"rfc", <<"1918", "6890">> >>,
      <<"rfc", <<"9999", "6890">> >>, <<"rfc", <<"9999">> >>, <<"rfc", <<"1918|6890">> >>,
      <<"size", <<"8">> >>, <<"size", <<"32">> >>, <<"size", <<"x">> >>,
      <<"type", <<"^IPv4$">> >>, <<"type", <<"^UNIX$">> >>, <<"type", <<"(">> >>,
      <<"flags", <<"up">> >> }

UniqueSelectors == {"address", "name", "Name", "port"}

Limits == {0, 1, 2, MaxLen + 1, MaxInt + 1, MaxUint}

Offsets == {0, 1, MaxLen + 1, 0 - 1, 0 - 2, 0 - (MaxLen + 1), MinInt}

Routes ==
    { [name |-> n, found |-> TRUE] : n \in {"eth0", ""} }
    \cup { [name |-> "", found |-> FALSE] }

\* Lines of routing output: a default route with nothing, with a space and
\* with further fields after the interface name, and lines that are none.
RouteLines ==
    { <<"default", "via", "10.0.0.1", "dev", "eth0">>,
      <<"default", "via", "10.0.0.1", "dev", "eth0", "">>,
      <<"default", "via", "10.0.0.1", "dev", "eth1", "proto", "dhcp">>,
      <<"default", "via", "10.0.0.1", "dev">>,
      <<"10.0.0.0/8", "dev", "eth0", "scope", "link">>,
      <<"default", "dev", "ppp0">>,
      <<"">> }

RouteOutputs == [1..1 -> RouteLines] \cup [1..2 -> RouteLines]

\* IPv4Addr values: every prefix mask, with and without a port.
Octets == {0, 10, 255}

Ports == {0, 80}

IPv4Addrs ==
    { IPv4Sock(o, n, port) : o \in [1..4 -> Octets], n \in 0..IPv4HostMask, port \in Ports }

\* The addresses an IPv4Addr is compared with: itself under every mask and
\* port, with one octet changed, and addresses of the other types.
Others(ipv4) ==
    { IPv4Sock(ipv4.grp, n, ipv4.port) : n \in 0..IPv4HostMask }
    \cup { IPv4Sock(ipv4.grp, ipv4.bits, port) : port \in Ports }
    \cup { IPv4Sock([ipv4.grp EXCEPT ![k] = v], ipv4.bits, ipv4.port) : k \in 1..4, v \in Octets }
    \cup { PrivateV6.SockAddr, Socket.SockAddr }

\* Decimal text of a number, as characters.
RECURSIVE Itoa(_)
Itoa(n) ==
    LET c == CHOOSE d \in DOMAIN Digit : Digit[d] = n % 10
    IN  IF n < 10 THEN <<c>> ELSE Itoa(n \div 10) \o <<c>>

DottedQuad(o) ==
    Itoa(o[1]) \o <<".">> \o Itoa(o[2]) \o <<".">> \o Itoa(o[3]) \o <<".">> \o Itoa(o[4])

CIDRText(o, n) == DottedQuad(o) \o <<"/">> \o Itoa(n)

\* The texts that name an IPv4Addr: CIDR, bare address, address with port;
\* and texts that name none.
Texts(ipv4) ==
    { CIDRText(ipv4.grp, ipv4.bits),
      DottedQuad(ipv4.grp),
      DottedQuad(ipv4.grp) \o <<":">> \o Itoa(ipv4.port),
      CIDRText(ipv4.grp, IPv4HostMask + 1),
      Itoa(ipv4.grp[1]) \o <<".">> \o Itoa(ipv4.grp[2]) \o <<"/">> \o Itoa(ipv4.bits) }

\* The string a sequence of characters spells.
RECURSIVE Concat(_)
Concat(chars) == IF chars = <<>> THEN "" ELSE Head(chars) \o Concat(Tail(chars))

(***************************************************************************)
(* State.                                                                  *)
(***************************************************************************)
VARIABLES
    mem,        \* the heap: mem[1] backs the caller's collection x, mem[2] a result
    r,          \* the slice the last call returned
    str,        \* the string the last call returned
    err,        \* the error the last call returned ("" for nil)
    panicked,   \* a call ended in a run-time panic
    lastOp,     \* the last call
    lastArg,    \* its arguments
    pre,        \* the contents of x before the call that made r
    rest,       \* the contents of the second collection a filter returned
    ipv4,       \* an IPv4Addr, the receiver of the method called
    method,     \* the IPv4Addr method or constructor called last
    arg,        \* its argument
    ret         \* what it returned

pipeline == <<mem, r, str, err, panicked, lastOp, lastArg, pre, rest>>

address == <<ipv4, method, arg, ret>>

vars == <<mem, r, str, err, panicked, lastOp, lastArg, pre, rest, ipv4, method, arg, ret>>

\* What a method returns: an address, a transport name, a string, a truth value.
Result(sa, net, s, ok) == [sa |-> sa, net |-> net, s |-> s, ok |-> ok]

NoResult == Result(ZeroIPv4Addr, "", "", FALSE)

\* The caller's collection: all of array 1.
x == [arr |-> 1, lo |-> 0, hi |-> Len(mem[1])]

Init ==
    /\ mem \in { <<c, <<>> >> : c \in Collections }
    /\ r = NilSlice
    /\ str = ""
    /\ err = ""
    /\ panicked = FALSE
    /\ lastOp = "none"
    /\ lastArg = <<>>
    /\ pre = mem[1]
    /\ rest = <<>>
    /\ ipv4 = ZeroIPv4Addr
    /\ method = "none"
    /\ arg = <<>>
    /\ ret = NoResult

\* No call has been made yet on the collection Init drew.
Idle == lastOp = "none" /\ ~panicked

\* The caller keeps out.s; an array no slice refers to any more is dropped.
Returns(out, op, a) ==
    /\ mem' = IF out.s.arr = 2 THEN out.m ELSE [out.m EXCEPT ![2] = <<>>]
    /\ r' = out.s
    /\ panicked' = out.panic
    /\ str' = ""
    /\ err' = ""
    /\ lastOp' = op
    /\ lastArg' = a
    /\ pre' = mem[1]
    /\ rest' = <<>>
    /\ UNCHANGED address

CallSortIfBy ==
    /\ Idle
    /\ \E selectorParam \in SortParams :
        \E out \in SortIfBy(mem, selectorParam, x) :
            Returns(out, "SortIfBy", selectorParam)

\* OrderedIfAddrBy(cmp...).Sort(r) on the collection the last call returned.
CallSort ==
    /\ ~panicked
    /\ lastOp \in {"SortIfBy", "ReverseIfAddrs", "IncludeIfs", "ExcludeIfs",
                   "UniqueIfAddrsBy", "LimitIfAddrs", "OffsetIfAddrs"}
    /\ \E cmp \in CmpLists :
        \E m2 \in Sort(mem, r, cmp) :
            /\ mem' = m2
            /\ lastOp' = "Sort"
            /\ lastArg' = [cmp |-> cmp, of |-> lastOp, was |-> View(mem, r)]
            /\ UNCHANGED <<r, str, err, panicked, pre, rest>>
            /\ UNCHANGED address

CallReverseIfAddrs ==
    /\ Idle
    /\ Returns(ReverseIfAddrs(mem, x), "ReverseIfAddrs", <<>>)

CallIncludeIfs ==
    /\ Idle
    /\ \E sel \in Selectors :
        Returns(IncludeIfs(mem, sel[1], sel[2], x), "IncludeIfs", sel)

CallExcludeIfs ==
    /\ Idle
    /\ \E sel \in Selectors :
        Returns(ExcludeIfs(mem, sel[1], sel[2], x), "ExcludeIfs", sel)

CallUniqueIfAddrsBy ==
    /\ Idle
    /\ \E selectorName \in UniqueSelectors :
        Returns(UniqueIfAddrsBy(mem, selectorName, x), "UniqueIfAddrsBy", selectorName)

CallLimitIfAddrs ==
    /\ Idle
    /\ \E lim \in Limits :
        Returns(LimitIfAddrs(mem, lim, x), "LimitIfAddrs", lim)

CallOffsetIfAddrs ==
    /\ Idle
    /\ \E off \in Offsets :
        Returns(OffsetIfAddrs(mem, off, x), "OffsetIfAddrs", off)

\* A query: the collection it returns is newly made.
Answers(ifs, s, e, op, route, fails) ==
    /\ mem' = [mem EXCEPT ![2] = ifs]
    /\ r' = IF ifs = <<>> THEN NilSlice ELSE [arr |-> 2, lo |-> 0, hi |-> Len(ifs)]
    /\ str' = s
    /\ err' = e
    /\ lastOp' = op
    /\ lastArg' = [route |-> route, fails |-> fails]
    /\ pre' = mem[1]
    /\ rest' = <<>>
    /\ UNCHANGED panicked
    /\ UNCHANGED address

CallGetDefaultInterfaces ==
    /\ Idle
    /\ \E route \in Routes, fails \in BOOLEAN :
        LET got == GetDefaultInterfaces(route, [ifs |-> mem[1], fails |-> fails])
        IN  Answers(got.ifs, "", got.err, "GetDefaultInterfaces", route, fails)

CallGetPrivateInterfaces ==
    /\ Idle
    /\ \E route \in Routes, fails \in BOOLEAN :
        \E ifs \in GetPrivateInterfaces(route, [ifs |-> mem[1], fails |-> fails]) :
            Answers(ifs, "", "", "GetPrivateInterfaces", route, fails)

CallGetPublicInterfaces ==
    /\ Idle
    /\ \E route \in Routes, fails \in BOOLEAN :
        \E ifs \in GetPublicInterfaces(route, [ifs |-> mem[1], fails |-> fails]) :
            Answers(ifs, "", "", "GetPublicInterfaces", route, fails)

CallGetPrivateIP ==
    /\ Idle
    /\ \E route \in Routes, fails \in BOOLEAN :
        \E ip \in GetPrivateIP(route, [ifs |-> mem[1], fails |-> fails]) :
            Answers(<<>>, ip, "", "GetPrivateIP", route, fails)

CallGetPublicIP ==
    /\ Idle
    /\ \E route \in Routes, fails \in BOOLEAN :
        \E ip \in GetPublicIP(route, [ifs |-> mem[1], fails |-> fails]) :
            Answers(<<>>, ip, "", "GetPublicIP", route, fails)

\* A filter primitive returns its two collections, both newly made, and its
\* error; with an error both collections are nil.
Filtered(got, op, param) ==
    /\ mem' = [mem EXCEPT ![2] = got.matched]
    /\ r' = IF got.err # "" THEN NilSlice ELSE [arr |-> 2, lo |-> 0, hi |-> Len(got.matched)]
    /\ rest' = got.remainder
    /\ err' = got.err
    /\ str' = ""
    /\ lastOp' = op
    /\ lastArg' = param
    /\ pre' = mem[1]
    /\ UNCHANGED panicked
    /\ UNCHANGED address

CallFilterIfByType ==
    /\ Idle
    /\ \E type_ \in {TypeUnix, TypeIPv4, TypeIPv6, TypeIP} :
        LET got == FilterIfByType(mem[1], type_)
        IN  Filtered([matched |-> got.matched, remainder |-> got.excluded, err |-> ""],
                     "FilterIfByType", type_)

CallIfByAddress ==
    /\ Idle
    /\ \E inputRe \in {"", "^10[.]0[.]0[.]1/8$", "("} :
        Filtered(IfByAddress(inputRe, mem[1]), "IfByAddress", inputRe)

CallIfByName ==
    /\ Idle
    /\ \E inputRe \in {"^eth0$", "("} :
        Filtered(IfByName(inputRe, mem[1]), "IfByName", inputRe)

CallIfByPort ==
    /\ Idle
    /\ \E inputRe \in {"^53$", "^0$", "("} :
        Filtered(IfByPort(inputRe, mem[1]), "IfByPort", inputRe)

CallIfByRFC ==
    /\ Idle
    /\ \E inputRFC \in {1918, 6890, 9999} :
        Filtered(IfByRFC(inputRFC, mem[1]), "IfByRFC", inputRFC)

CallIfByMaskSize ==
    /\ Idle
    /\ \E maskSize \in {8, 16, 32} :
        Filtered(IfByMaskSize(maskSize, mem[1]), "IfByMaskSize", maskSize)

CallIfByType ==
    /\ Idle
    /\ \E inputRe \in {"^IPv4$", "^UNIX$", "("} :
        Filtered(IfByType(inputRe, mem[1]), "IfByType", inputRe)

CallParseLinuxDefaultIfName ==
    /\ Idle
    /\ \E routeOut \in RouteOutputs :
        LET got == parseLinuxDefaultIfName(routeOut)
        IN  Answers(<<>>, got.name, got.err, "parseLinuxDefaultIfName", routeOut, FALSE)

Next ==
    \/ CallSortIfBy
    \/ CallSort
    \/ CallReverseIfAddrs
    \/ CallIncludeIfs
    \/ CallExcludeIfs
    \/ CallUniqueIfAddrsBy
    \/ CallLimitIfAddrs
    \/ CallOffsetIfAddrs
    \/ CallGetDefaultInterfaces
    \/ CallGetPrivateInterfaces
    \/ CallGetPublicInterfaces
    \/ CallGetPrivateIP
    \/ CallGetPublicIP
    \/ CallParseLinuxDefaultIfName
    \/ CallFilterIfByType
    \/ CallIfByAddress
    \/ CallIfByName
    \/ CallIfByPort
    \/ CallIfByRFC
    \/ CallIfByMaskSize
    \/ CallIfByType

Spec == Init /\ [][Next]_vars

(***************************************************************************)
(* Methods of one IPv4Addr: a value is drawn, then one method is called on *)
(* it, or NewIPv4Addr is called on a text naming it.                       *)
(***************************************************************************)
InitIPv4 ==
    /\ mem = << <<>>, <<>> >>
    /\ r = NilSlice
    /\ str = ""
    /\ err = ""
    /\ panicked = FALSE
    /\ lastOp = "none"
    /\ lastArg = <<>>
    /\ pre = <<>>
    /\ rest = <<>>
    /\ ipv4 \in IPv4Addrs
    /\ method = "none"
    /\ arg = <<>>
    /\ ret = NoResult

Called(m, a, res) ==
    /\ method = "none"
    /\ method' = m
    /\ arg' = a
    /\ ret' = res
    /\ UNCHANGED ipv4
    /\ UNCHANGED pipeline

CallFirstUsable == Called("FirstUsable", <<>>, Result(FirstUsable(ipv4), "", "", TRUE))

CallLastUsable == Called("LastUsable", <<>>, Result(LastUsable(ipv4), "", "", TRUE))

CallHost == Called("Host", <<>>, Result(Host(ipv4), "", "", TRUE))

CallNetwork == Called("Network", <<>>, Result(Network(ipv4), "", "", TRUE))

CallBroadcast == Called("Broadcast", <<>>, Result(Broadcast(ipv4), "", "", TRUE))

CallString == Called("String", <<>>, Result(ipv4, "", IPv4String(ipv4), TRUE))

CallEqual ==
    \E sa \in Others(ipv4) :
        Called("Equal", sa, Result(ipv4, "", "", Equal(ipv4, sa)))

CallDialPacketArgs ==
    LET got == DialPacketArgs(ipv4)
    IN  Called("DialPacketArgs", <<>>, Result(ipv4, got[1], got[2], TRUE))

CallDialStreamArgs ==
    LET got == DialStreamArgs(ipv4)
    IN  Called("DialStreamArgs", <<>>, Result(ipv4, got[1], got[2], TRUE))

CallListenPacketArgs ==
    LET got == ListenPacketArgs(ipv4)
    IN  Called("ListenPacketArgs", <<>>, Result(ipv4, got[1], got[2], TRUE))

CallListenStreamArgs ==
    LET got == ListenStreamArgs(ipv4)
    IN  Called("ListenStreamArgs", <<>>, Result(ipv4, got[1], got[2], TRUE))

\* NewIPv4Addr(text).String(): the text is parsed and the value printed.
CallNewIPv4Addr ==
    \E ipv4Str \in Texts(ipv4) :
        LET got == NewIPv4Addr(ipv4Str)
        IN  Called("NewIPv4Addr", ipv4Str,
                   Result(got.ipv4, "", IF got.ok THEN IPv4String(got.ipv4) ELSE "", got.ok))

NextIPv4 ==
    \/ CallFirstUsable
    \/ CallLastUsable
    \/ CallHost
    \/ CallNetwork
    \/ CallBroadcast
    \/ CallString
    \/ CallEqual
    \/ CallDialPacketArgs
    \/ CallDialStreamArgs
    \/ CallListenPacketArgs
    \/ CallListenStreamArgs
    \/ CallNewIPv4Addr

SpecIPv4 == InitIPv4 /\ [][NextIPv4]_vars

(***************************************************************************)
(* Properties.                                                             *)
(***************************************************************************)
\* The collection the last call returned, and the input it was given.
Res == View(mem, r)

Count(seq, e) == Cardinality({ i \in 1..Len(seq) : seq[i] = e })

\* a and b hold the same elements, each as often.
SameElements(a, b) ==
    /\ Len(a) = Len(b)
    /\ \A e \in Universe : Count(a, e) = Count(b, e)

\* The comparison a sort key stands for.
KeyCmp(key, p, q) ==
    CASE key = "address" -> AscIfAddress(p, q)
      [] key = "name" -> AscIfName(p, q)
      [] key = "port" -> AscIfPort(p, q)
      [] key = "private" -> AscIfPrivate(p, q)
      [] key = "size" -> AscIfNetworkSize(p, q)
      [] key = "type" -> AscIfType(p, q)

FuncKey(f) ==
    CASE f = "AscIfAddress" -> "address"
      [] f = "AscIfName" -> "name"
      [] f = "AscIfPort" -> "port"
      [] f = "AscIfPrivate" -> "private"
      [] f = "AscIfNetworkSize" -> "size"
      [] f = "AscIfType" -> "type"

\* What the first key that tells p and q apart says; 0 when none does.
Decides(keys, p, q) ==
    LET differ == { k \in 1..Len(keys) : KeyCmp(keys[k], p, q) # 0 }
    IN  IF differ = {} THEN 0
        ELSE KeyCmp(keys[CHOOSE k \in differ : \A h \in differ : k <= h], p, q)

\* No element of seq comes after one the keys order it strictly before.
OrderedBy(keys, seq) ==
    \A i, j \in 1..Len(seq) : i < j => Decides(keys, seq[j], seq[i]) # 0 - 1

\* Elements that tie with e on every key keep, in out, the order they had in inp.
TiesKeepOrder(keys, inp, out) ==
    \A e \in Universe :
        LET tie(a) == Decides(keys, a, e) = 0
        IN  SelectSeq(out, tie) = SelectSeq(inp, tie)

\* A sort has just run: by SortIfBy with supported keys, or by Sort in place.
SortRan ==
    \/ lastOp = "SortIfBy" /\ \A i \in 1..Len(lastArg) : ToLower(lastArg[i]) \in SortKeys
    \/ lastOp = "Sort"

SortKeysUsed ==
    IF lastOp = "Sort" THEN [i \in 1..Len(lastArg.cmp) |-> FuncKey(lastArg.cmp[i])]
    ELSE [i \in 1..Len(lastArg) |-> ToLower(lastArg[i])]

SortInput == IF lastOp = "Sort" THEN lastArg.was ELSE pre

\* C1 (as claimed): the multi-key sort is stable: elements for which all keys
\* compare equal come out in the relative order they went in.
C1_SortIsStable == SortRan => TiesKeepOrder(SortKeysUsed, SortInput, Res)

\* C1 (amended): the multi-key sort returns the elements of its input, each as
\* often, arranged so that none comes after one the keys order it strictly
\* before; the order among elements that tie on every key is not fixed.
C1_SortOrdersByKeys ==
    SortRan => SameElements(Res, SortInput) /\ OrderedBy(SortKeysUsed, Res)

C1_Witness ==
    /\ lastOp = "SortIfBy"
    /\ lastArg = <<"type", "port">>
    /\ Len(Res) = 3
    /\ Res # pre
    /\ \E i \in 1..2 : Decides(SortKeysUsed, Res[i], Res[i + 1]) = 0 /\ Res[i] # Res[i + 1]

PureStages == {"SortIfBy", "ReverseIfAddrs", "IncludeIfs", "ExcludeIfs", "UniqueIfAddrsBy"}

\* C2: SortIfBy, ReverseIfAddrs, IncludeIfs, ExcludeIfs and UniqueIfAddrsBy leave
\* the contents and order of their input as they were before the call.
C2_InputUntouched == lastOp \in PureStages => mem[1] = pre

C2_Witness ==
    /\ lastOp \in {"SortIfBy", "ReverseIfAddrs"}
    /\ Len(Res) >= 2
    /\ Res # pre
    /\ mem[1] = pre

\* C3 (as claimed): after an in-place Sort of what LimitIfAddrs or
\* OffsetIfAddrs returned, the input of that call is unchanged.
C3_LimitOffsetResultIndependent ==
    (lastOp = "Sort" /\ lastArg.of \in {"LimitIfAddrs", "OffsetIfAddrs"}) => mem[1] = pre

\* Registry identifiers a parameter lists that the registry supports.
Listed(selectorParam) ==
    { ParseUint(selectorParam[i]).v : i \in { h \in 1..Len(selectorParam) :
        ParseUint(selectorParam[h]).ok /\ ParseUint(selectorParam[h]).v \in DOMAIN rfcNetMap } }

InListed(selectorParam, ifAddr) ==
    \E rfc \in Listed(selectorParam) : InRFC(rfc, ifAddr.SockAddr)

RFCSelected == ToLower(lastArg[1]) = "rfc"

\* C4 (as claimed): ExcludeIfs "rfc" with supported identifiers returns exactly
\* the input elements that are in no network of the named registries.
C4_ExcludeRFCKeepsNonMembers ==
    (lastOp = "ExcludeIfs" /\ RFCSelected /\ Listed(lastArg[2]) # {}
        /\ Cardinality(Listed(lastArg[2])) = Len(lastArg[2]))
    => LET outside(a) == ~InListed(lastArg[2], a)
       IN  Res = SelectSeq(pre, outside)

UniqueKeyed == lastOp = "UniqueIfAddrsBy" /\ ToLower(lastArg) \in {"address", "name"}

UniqueUnkeyed == lastOp = "UniqueIfAddrsBy" /\ ToLower(lastArg) \notin {"address", "name"}

\* C5 (as claimed): UniqueIfAddrsBy with a selector other than "address" or
\* "name" returns its input unchanged.
C5_UnknownSelectorKeepsAll == UniqueUnkeyed => Res = pre

\* C5 (amended): UniqueIfAddrsBy with a selector other than "address" or "name"
\* gives every element the same key, so it returns the first element of its
\* input alone (and the empty collection for empty input).
C5_UnknownSelectorKeepsFirst ==
    UniqueUnkeyed => Res = IF pre = <<>> THEN <<>> ELSE <<pre[1]>>

C5_Witness == UniqueUnkeyed /\ Len(pre) = 3 /\ pre[1] # pre[2] /\ Len(Res) = 1

UniqueKey(ifAddr) ==
    IF ToLower(lastArg) = "address" THEN String(ifAddr.SockAddr) ELSE ifAddr.Name

\* The first element of each maximal run of equal keys.
RunHeads(seq) ==
    LET at == { i \in 1..Len(seq) : i = 1 \/ UniqueKey(seq[i]) # UniqueKey(seq[i - 1]) }
        nth(n) == CHOOSE i \in at : Cardinality({ h \in at : h < i }) = n - 1
    IN  [n \in 1..Cardinality(at) |-> seq[nth(n)]]

\* C6 (as claimed): UniqueIfAddrsBy "address" or "name" returns the first element
\* of each maximal run of consecutive elements with an equal key, whatever the
\* key, the empty interface name included.
C6_UniqueCollapsesRuns == UniqueKeyed => Res = RunHeads(pre)

\* C7 (as claimed): IncludeIfs "rfc" returns the input elements that are in at
\* least one supported listed registry, each as often as it occurs in the input.
C7_IncludeRFCKeepsMembersOnce ==
    (lastOp = "IncludeIfs" /\ RFCSelected)
    => \A e \in Universe :
          Count(Res, e) = IF InListed(lastArg[2], e) THEN Count(pre, e) ELSE 0

Signed(sign) ==
    /\ lastOp = "SortIfBy"
    /\ \E k \in SortKeys : lastArg = << sign \o k >>

SignedKey == CHOOSE k \in SortKeys : lastArg = << "+" \o k >> \/ lastArg = << "-" \o k >>

\* C8 (as claimed): SortIfBy "+key" sorts like "key", and "-key" sorts by the
\* ascending comparator with its sign negated.
C8_SignedKeysSort ==
    /\ Signed("+") => SameElements(Res, pre) /\ OrderedBy(<<SignedKey>>, Res)
    /\ Signed("-") =>
          /\ SameElements(Res, pre)
          /\ \A i, j \in 1..Len(Res) : i < j => KeyCmp(SignedKey, Res[j], Res[i]) # 1

Queries ==
    {"GetDefaultInterfaces", "GetPrivateInterfaces", "GetPublicInterfaces",
     "GetPrivateIP", "GetPublicIP"}

\* C9 (as claimed): none of the five queries returns an error, whichever stage fails.
C9_QueriesNeverFail == lastOp \in Queries => err = ""

\* C9 (amended): GetPrivateInterfaces, GetPublicInterfaces, GetPrivateIP and
\* GetPublicIP return the empty collection or string when the default route is
\* not found or enumeration fails; GetDefaultInterfaces hides a failed
\* enumeration the same way, but returns the error (and no collection) when the
\* default route is not found.
C9_OnlyRouteErrorReturned ==
    lastOp \in Queries =>
        /\ (~lastArg.route.found \/ lastArg.fails) => Res = <<>> /\ str = ""
        /\ err # "" <=> (lastOp = "GetDefaultInterfaces" /\ ~lastArg.route.found)

C9_Witness ==
    /\ lastOp = "GetDefaultInterfaces"
    /\ lastArg.route.found
    /\ lastArg.fails
    /\ Len(pre) = 2
    /\ \A i \in 1..2 : pre[i].Name = lastArg.route.name
    /\ err = ""

\* The enumerated IP-family addresses on the default interface.
DefaultIPs ==
    LET want(a) ==
            /\ lastArg.route.found
            /\ ~lastArg.fails
            /\ a.Name = lastArg.route.name
            /\ a.SockAddr.type \in {TypeIPv4, TypeIPv6}
    IN  SelectSeq(pre, want)

OrderedByTypeSize(seq) ==
    \A i, j \in 1..Len(seq) :
        i < j =>
            /\ TypeRank(seq[i].SockAddr.type) <= TypeRank(seq[j].SockAddr.type)
            /\ seq[i].SockAddr.type = seq[j].SockAddr.type
                    => seq[i].SockAddr.bits <= seq[j].SockAddr.bits

LeadingKeys(n) == SubSeq(SortKeysUsed, 1, n)

\* C11: in a sort with a non-empty key list the first key that tells two
\* elements apart decides their order: the output is ordered by every leading
\* part of the key list, so a later key never puts q before p when an earlier
\* key reports p < q.
C11_FirstDifferingKeyDecides ==
    SortRan /\ Len(SortKeysUsed) > 0 =>
        \A n \in 1..Len(SortKeysUsed) : OrderedBy(LeadingKeys(n), Res)

\* A two-key sort whose second key, alone, would have put a pair the other way.
C11_Witness ==
    /\ lastOp = "SortIfBy"
    /\ lastArg = <<"type", "port">>
    /\ \E i, j \in 1..Len(Res) :
        /\ i < j
        /\ KeyCmp("type", Res[i], Res[j]) = 0 - 1
        /\ KeyCmp("port", Res[i], Res[j]) = 1

(***************************************************************************)
(* Offset and limit.                                                       *)
(***************************************************************************)
\* seq without its first n elements, and the last n elements of seq.
Drop(seq, n) == SubSeq(seq, n + 1, Len(seq))
LastN(seq, n) == SubSeq(seq, Len(seq) - n + 1, Len(seq))

\* C12: OffsetIfAddrs(k, x) never fails, for any integer k down to the most
\* negative one: it returns x without its first k elements when k >= 0, the
\* last |k| elements when k < 0, and the empty collection when |k| > len(x).
C12_OffsetTotal ==
    lastOp = "OffsetIfAddrs" =>
        /\ ~panicked
        /\ Res = IF lastArg >= 0
                 THEN (IF lastArg > Len(pre) THEN <<>> ELSE Drop(pre, lastArg))
                 ELSE (IF 0 - lastArg > Len(pre) THEN <<>> ELSE LastN(pre, 0 - lastArg))

\* C13: LimitIfAddrs(n, x) never fails, for any unsigned n up to the largest
\* one: it returns the first min(n, len(x)) elements of x in order.
C13_LimitTotal ==
    lastOp = "LimitIfAddrs" =>
        /\ ~panicked
        /\ Res = SubSeq(pre, 1, Min(lastArg, Len(pre)))

(***************************************************************************)
(* Selectors that cannot be used.                                          *)
(***************************************************************************)
\* The selector of an include/exclude call names no attribute, or names one
\* matched by a regular expression and the expression does not compile, or is
\* "size" with a parameter that is no number.
BadSelector(sel) ==
    LET name == ToLower(sel[1])
        param == Join(sel[2])
    IN  \/ name \notin {"address", "name", "port", "rfc", "size", "type"}
        \/ name \in {"address", "name", "port", "type"} /\ ~(param = "" \/ RegexpLiteral(param) # "(")
        \/ name = "size" /\ ~ParseUint(param).ok

\* Some clause of the key list of a SortIfBy call is no supported key.
BadSortKey(selectorParam) ==
    \E i \in 1..Len(selectorParam) : ToLower(selectorParam[i]) \notin SortKeys

Bit(o, i) == (o[((i - 1) \div 8) + 1] \div Pow2(7 - ((i - 1) % 8))) % 2

\* net is addr AND mask, and bc is net OR NOT mask, for the mask of n one bits.
IsNetworkOf(net, addr, n) ==
    \A i \in 1..32 : Bit(net, i) = IF i <= n THEN Bit(addr, i) ELSE 0

IsBroadcastOf(bc, addr, n) ==
    \A i \in 1..32 : Bit(bc, i) = IF i <= n THEN Bit(addr, i) ELSE 1

\* An address as the pair of its upper and lower 16 bits.
Upper(o) == o[1] * 256 + o[2]
Lower(o) == o[3] * 256 + o[4]

\* b is a + 1 as 32-bit values, and a + 1 does not wrap around.
IsNext(a, b) ==
    \/ Lower(a) < 65535 /\ Lower(b) = Lower(a) + 1 /\ Upper(b) = Upper(a)
    \/ Lower(a) = 65535 /\ Upper(a) < 65535 /\ Lower(b) = 0 /\ Upper(b) = Upper(a) + 1

\* a < b as 32-bit values.
Below(a, b) == Upper(a) < Upper(b) \/ (Upper(a) = Upper(b) /\ Lower(a) < Lower(b))

\* C15 (as claimed): for an IPv4Addr with Maskbits() = 32 and any port,
\* FirstUsable(), LastUsable() and Host() are the same value: same address,
\* same mask and same port.
C15_HostMaskAllEqual ==
    method \in {"FirstUsable", "LastUsable", "Host"} /\ Maskbits(ipv4) = 32 =>
        /\ ret.sa = FirstUsable(ipv4)
        /\ ret.sa = LastUsable(ipv4)
        /\ ret.sa = Host(ipv4)

\* C15 (amended): for an IPv4Addr with Maskbits() = 32, FirstUsable() and
\* LastUsable() are both the receiver's address with the host mask and port
\* 0, and Host() is that address and mask with the receiver's port; the three
\* are the same value only when the receiver's port is 0.
C15_HostMaskSameAddress ==
    Maskbits(ipv4) = 32 =>
        /\ method \in {"FirstUsable", "LastUsable"} =>
                ret.sa = [type |-> TypeIPv4, grp |-> ipv4.grp, bits |-> 32, port |-> 0, path |-> ""]
        /\ method = "Host" =>
                ret.sa = [type |-> TypeIPv4, grp |-> ipv4.grp, bits |-> 32, port |-> ipv4.port, path |-> ""]
        /\ method = "LastUsable" => (ret.sa = Host(ipv4) <=> ipv4.port = 0)

\* LastUsable() of a /32 address with a port: the port is not carried over.
C15_Witness ==
    /\ method = "LastUsable"
    /\ Maskbits(ipv4) = 32
    /\ ipv4.port # 0
    /\ ret.sa.grp = ipv4.grp
    /\ ret.sa # Host(ipv4)

IPText(o) == Concat(DottedQuad(o))
IPPortText(o, port) == Concat(DottedQuad(o) \o <<":">> \o Itoa(port))
IPMaskText(o, n) == Concat(CIDRText(o, n))

\* C18: String() of an IPv4Addr with a prefix mask of n bits is "ip:port"
\* when the port is not 0, otherwise "ip" when n = 32, otherwise "ip/n"; and a
\* value parsed from the CIDR text a.b.c.d/n (0 <= n <= 32) has the address as
\* written, port 0, and prints back as a.b.c.d/n when n # 32 and as a.b.c.d
\* when n = 32.
C18_StringForms ==
    /\ method = "String" =>
        ret.s = IF ipv4.port # 0 THEN IPPortText(ipv4.grp, ipv4.port)
                ELSE IF ipv4.bits = 32 THEN IPText(ipv4.grp)
                ELSE IPMaskText(ipv4.grp, ipv4.bits)
    /\ method = "NewIPv4Addr" /\ arg = CIDRText(ipv4.grp, ipv4.bits) =>
        /\ ret.ok
        /\ ret.sa.grp = ipv4.grp /\ ret.sa.bits = ipv4.bits /\ ret.sa.port = 0
        /\ ret.s = IF ipv4.bits = 32 THEN IPText(ipv4.grp) ELSE Concat(arg)

\* The text 10.255.0.10/32 was parsed and printed back without its mask.
C18_Witness ==
    /\ method = "NewIPv4Addr"
    /\ arg = <<"1", "0", ".", "2", "5", "5", ".", "0", ".", "1", "0", "/", "3", "2">>
    /\ ret.ok
    /\ ret.s = "10.255.0.10"

\* C19: a.Equal(b) of IPv4Addr values with prefix masks is true exactly when
\* they have the same port, the same address and the same mask; Equal
\* against an address that is not IPv4 is false.
C19_EqualIsFieldwise ==
    method = "Equal" =>
        (ret.ok <=> /\ arg.type = TypeIPv4
                    /\ arg.port = ipv4.port
                    /\ arg.grp = ipv4.grp
                    /\ arg.bits = ipv4.bits)

\* A network address compared with itself under /24 and /32: not Equal.
C19_Witness ==
    /\ method = "Equal"
    /\ ipv4.grp = <<10, 0, 10, 0>> /\ ipv4.bits = 24
    /\ arg.type = TypeIPv4 /\ arg.grp = ipv4.grp /\ arg.port = ipv4.port /\ arg.bits = 32
    /\ ~ret.ok

\* The transport name of each argument builder.
Transport ==
    [m \in {"DialPacketArgs", "DialStreamArgs", "ListenPacketArgs", "ListenStreamArgs"} |->
        IF m \in {"DialPacketArgs", "ListenPacketArgs"} THEN "udp4" ELSE "tcp4"]

\* C20 (as claimed): each of the four builders returns its transport name
\* with an empty argument string when the mask is not the host mask or the
\* port is 0, and "ip:port" only when the mask is the host mask and the port is
\* not 0.
C20_BuildersNeedHostAndPort ==
    method \in DOMAIN Transport =>
        /\ ret.net = Transport[method]
        /\ ret.s = IF ipv4.bits # 32 \/ ipv4.port = 0 THEN ""
                   ELSE IPPortText(ipv4.grp, ipv4.port)

\* C20 (amended): DialPacketArgs and DialStreamArgs return an empty argument
\* string when the mask is not the host mask or the port is 0, else "ip:port".
\* ListenPacketArgs and ListenStreamArgs test the mask only: with the host mask
\* they return "ip:port" also for port 0 ("ip:0").  Each returns its transport
\* name in every case.
C20_DialNeedsPortListenDoesNot ==
    method \in DOMAIN Transport =>
        /\ ret.net = Transport[method]
        /\ method \in {"DialPacketArgs", "DialStreamArgs"} =>
            ret.s = IF ipv4.bits # 32 \/ ipv4.port = 0 THEN ""
                    ELSE IPPortText(ipv4.grp, ipv4.port)
        /\ method \in {"ListenPacketArgs", "ListenStreamArgs"} =>
            ret.s = IF ipv4.bits # 32 THEN "" ELSE IPPortText(ipv4.grp, ipv4.port)

\* ListenStreamArgs() of a host address without a port.
C20_Witness ==
    /\ method = "ListenStreamArgs"
    /\ ipv4.bits = 32 /\ ipv4.port = 0
    /\ ipv4.grp = <<10, 0, 0, 10>>
    /\ ret.s = "10.0.0.10:0"

(***************************************************************************)
(* Default route.                                                          *)
(***************************************************************************)
\* The line has the form "default via <gw> dev <ifname> ...".
DefaultRouteLine(line) ==
    /\ Len(line) >= 5
    /\ line[1] = "default" /\ line[2] = "via" /\ line[3] # "" /\ line[4] = "dev"
    /\ line[5] # ""

\* C21: parseLinuxDefaultIfName returns the bare interface name of the first
\* line of the form "default via <gw> dev <ifname> ...", without the fields
\* that follow the name, and no error; when no line has the form it returns
\* the error "No default interface found" and an empty name.
C21_BareInterfaceName ==
    lastOp = "parseLinuxDefaultIfName" =>
        LET routeOut == lastArg.route
            found == { i \in 1..Len(routeOut) : DefaultRouteLine(routeOut[i]) }
            first == CHOOSE i \in found : \A j \in found : i <= j
        IN  IF found = {} THEN str = "" /\ err = "No default interface found"
            ELSE str = routeOut[first][5] /\ err = ""

(***************************************************************************)
(* Filter primitives.                                                      *)
(***************************************************************************)
Filters ==
    {"FilterIfByType", "IfByAddress", "IfByName", "IfByPort", "IfByRFC",
     "IfByMaskSize", "IfByType"}

\* The elements of seq that occur in part, in the order they have in seq.
Kept(seq, part) ==
    LET in(e) == \E i \in 1..Len(part) : part[i] = e
    IN  SelectSeq(seq, in)

\* Every element of the input occurs in exactly one of the two results, as
\* often as in the input.
Partitions ==
    /\ \A e \in Universe : Count(Res, e) + Count(rest, e) = Count(pre, e)
    /\ \A e \in Universe : Count(Res, e) = 0 \/ Count(rest, e) = 0

\* Addresses that are not IP are in the remainder of IfByPort and IfByMaskSize.
NonIPInRemainder ==
    lastOp \in {"IfByPort", "IfByMaskSize"} =>
        \A i \in 1..Len(Res) : Res[i].SockAddr.type \cap TypeIP # {}

IsIP(a) == a.SockAddr.type \cap TypeIP # {}
NotIP(a) == a.SockAddr.type \cap TypeIP = {}

\* C22 (as claimed): a filter primitive that returns no error partitions its
\* input, puts addresses that are not IP in the remainder of IfByPort and
\* IfByMaskSize, and both collections it returns keep the relative order the
\* elements had in the input.
C22_FiltersPartitionInOrder ==
    lastOp \in Filters /\ err = "" =>
        /\ Partitions
        /\ NonIPInRemainder
        /\ Res = Kept(pre, Res)
        /\ rest = Kept(pre, rest)

\* C22 (amended): a filter primitive that returns no error partitions its
\* input and puts addresses that are not IP in the remainder of IfByPort and
\* IfByMaskSize; the matched collection keeps the input's order, and so does
\* the remainder, except that the remainder of IfByPort and IfByMaskSize lists
\* the addresses that are not IP first and the unmatched IP addresses after
\* them, each group in input order.
C22_FiltersPartition ==
    lastOp \in Filters /\ err = "" =>
        /\ Partitions
        /\ NonIPInRemainder
        /\ Res = Kept(pre, Res)
        /\ rest = IF lastOp \in {"IfByPort", "IfByMaskSize"}
                  THEN SelectSeq(Kept(pre, rest), NotIP) \o SelectSeq(Kept(pre, rest), IsIP)
                  ELSE Kept(pre, rest)

\* IfByPort put a UNIX socket before an IP address that preceded it in the input.
C22_Witness ==
    /\ lastOp = "IfByPort"
    /\ lastArg = "^53$"
    /\ pre = <<Private8, Socket, Public32>>
    /\ Res = <<Public32>>
    /\ rest = <<Socket, Private8>>

====
